---- MODULE Spec2Model ----
(***************************************************************************)
(* Model of build_prism_catalogs.py: the PRISM catalog builder.            *)
(*                                                                         *)
(* Python strings are sequences of one-character strings.  Python values   *)
(* that are "int or None", and calls that may raise, are records with a    *)
(* tag.  Python ints are unbounded, so sizes are kept as base-1024 digit   *)
(* sequences (least significant digit first, no leading zero digit).       *)
(***************************************************************************)
EXTENDS Integers, Sequences, FiniteSets, TLC

(***************************************************************************)
(* Bounds of the model.                                                    *)
(***************************************************************************)
MaxLen == 4            \* longest raw size text given to _parse_size
MaxCells == 4          \* most <td> cells in a table row
MaxAnchors == 3        \* most <a href> elements on a page
NumVariables == 2      \* the crawl visits the first NumVariables of ALL_VARIABLES
MaxWorkers == 2        \* largest value of --workers
MaxTasks == 2          \* most year directories the server lists in one crawl

(***************************************************************************)
(* Program constants.                                                      *)
(***************************************************************************)
MAX_RETRIES == 3
RETRY_BACKOFF == 15    \* 1.5 seconds, in tenths of a second

(***************************************************************************)
(* Characters and Python's str methods.                                    *)
(***************************************************************************)
DigitChars == <<"0", "1", "2", "3", "4", "5", "6", "7", "8", "9">>
UpperChars == <<"A", "B", "C", "D", "E", "F", "G", "H", "I", "J", "K", "L", "M",
                "N", "O", "P", "Q", "R", "S", "T", "U", "V", "W", "X", "Y", "Z">>
LowerChars == <<"a", "b", "c", "d", "e", "f", "g", "h", "i", "j", "k", "l", "m",
                "n", "o", "p", "q", "r", "s", "t", "u", "v", "w", "x", "y", "z">>
WhiteChars == {" ", "\t", "\n", "\r"}

Range(f) == {f[i] : i \in DOMAIN f}

IsDigitChar(c) == c \in Range(DigitChars)

DigitVal(c) == (CHOOSE i \in 1..10 : DigitChars[i] = c) - 1

\* str.lower() on one character
LowerChar(c) ==
    IF c \in Range(UpperChars)
    THEN LowerChars[CHOOSE i \in 1..26 : UpperChars[i] = c]
    ELSE c

\* str.lower()
Lower(s) == [i \in 1..Len(s) |-> LowerChar(s[i])]

RECURSIVE LStrip(_)
LStrip(s) == IF s # <<>> /\ s[1] \in WhiteChars THEN LStrip(Tail(s)) ELSE s

RECURSIVE RStrip(_)
RStrip(s) ==
    IF s # <<>> /\ s[Len(s)] \in WhiteChars
    THEN RStrip(SubSeq(s, 1, Len(s) - 1))
    ELSE s

\* str.strip()
Strip(s) == RStrip(LStrip(s))

\* str.rstrip("/")
RECURSIVE RStripSlash(_)
RStripSlash(s) ==
    IF s # <<>> /\ s[Len(s)] = "/"
    THEN RStripSlash(SubSeq(s, 1, Len(s) - 1))
    ELSE s

\* str.endswith(suffix)
EndsWith(s, suffix) ==
    /\ Len(s) >= Len(suffix)
    /\ SubSeq(s, Len(s) - Len(suffix) + 1, Len(s)) = suffix

\* str.isdigit() (False on the empty string)
IsDigitStr(s) == s # <<>> /\ \A i \in 1..Len(s) : IsDigitChar(s[i])

\* os.path.basename(p): what follows the last "/"
Basename(p) ==
    LET slashes == {i \in 1..Len(p) : p[i] = "/"}
        last    == IF slashes = {} THEN 0
                   ELSE CHOOSE i \in slashes : \A j \in slashes : j <= i
    IN  SubSeq(p, last + 1, Len(p))

\* all strings over the alphabet A of length 0..n
StringsUpTo(A, n) == UNION {[1..k -> A] : k \in 0..n}

(***************************************************************************)
(* Unbounded non-negative integers, base 1024.                             *)
(***************************************************************************)
Base == 1024

\* the bits of one digit: Base is 2^DigitBits
DigitBits == 10

RECURSIVE BigNorm(_)
BigNorm(b) ==
    IF b # <<>> /\ b[Len(b)] = 0 THEN BigNorm(SubSeq(b, 1, Len(b) - 1)) ELSE b

\* the digits of a machine integer n >= 0
RECURSIVE Big(_)
Big(n) == IF n = 0 THEN <<>> ELSE <<n % Base>> \o Big(n \div Base)

\* b * 1024^p
BigShift(b, p) == IF b = <<>> THEN <<>> ELSE [i \in 1..p |-> 0] \o b

\* b + 1
RECURSIVE BigInc(_)
BigInc(b) ==
    IF b = <<>> THEN <<1>>
    ELSE IF b[1] + 1 < Base THEN <<b[1] + 1>> \o Tail(b)
    ELSE <<0>> \o BigInc(Tail(b))

\* one step of the long division: the digit cur goes below the quotient hq
DivStep(cur, hq, d) == [q |-> <<cur \div d>> \o hq, r |-> cur % d]

\* quotient (digit sequence, not normalised) and remainder of b by 0 < d
RECURSIVE BigDivMod(_, _)
BigDivMod(b, d) ==
    IF b = <<>> THEN [q |-> <<>>, r |-> 0]
    ELSE LET hi == BigDivMod(Tail(b), d)
         IN  DivStep(hi.r * Base + b[1], hi.q, d)

\* b * m + c, for machine integers 0 <= m and 0 <= c
RECURSIVE BigMulAdd(_, _, _)
BigMulAdd(b, m, c) ==
    IF b = <<>> THEN Big(c)
    ELSE <<(b[1] * m + c) % Base>> \o BigMulAdd(Tail(b), m, (b[1] * m + c) \div Base)

\* the value of a string of decimal digits of any length ("" is 0)
RECURSIVE BigDec(_)
BigDec(s) ==
    IF s = <<>> THEN <<>>
    ELSE BigMulAdd(BigDec(SubSeq(s, 1, Len(s) - 1)), 10, DigitVal(s[Len(s)]))

RECURSIVE Pow10(_)
Pow10(k) == IF k = 0 THEN 1 ELSE 10 * Pow10(k - 1)

RECURSIVE Pow2(_)
Pow2(k) == IF k = 0 THEN 1 ELSE 2 * Pow2(k - 1)

\* the number of bits of a machine integer n >= 0, and of b
RECURSIVE BitLen(_)
BitLen(n) == IF n = 0 THEN 0 ELSE 1 + BitLen(n \div 2)

BigBits(b) ==
    IF b = <<>> THEN 0 ELSE DigitBits * (Len(b) - 1) + BitLen(b[Len(b)])

\* b * 2^k
BigShl(b, k) == BigShift(BigMulAdd(b, Pow2(k % DigitBits), 0), k \div DigitBits)

\* a quotient cut off below the point: its integer part, and whether
\* anything non-zero was cut off
CutOf(dm, sticky) == [q |-> BigNorm(dm.q), sticky |-> sticky \/ dm.r # 0]

\* b / 2^k, cut off
ShrSticky(b, k) ==
    CutOf(BigDivMod(SubSeq(b, (k \div DigitBits) + 1, Len(b)), Pow2(k % DigitBits)),
          \E i \in 1..(k \div DigitBits) : i <= Len(b) /\ b[i] # 0)

\* cut / d, cut off
DivCut(cut, d) == CutOf(BigDivMod(cut.q, d), cut.sticky)

\* 2 * num / (den * 2^e), cut off
TwiceQuotient(num, den, e) ==
    IF e <= 1 THEN CutOf(BigDivMod(BigShl(num, 1 - e), den), FALSE)
    ELSE DivCut(ShrSticky(num, e - 1), den)

\* q, or q + 1: the rounding to nearest of q plus a half (if roundbit) plus
\* something below a half (if sticky), a tie going to the even neighbour
RoundHalfOf(q, roundbit, sticky) ==
    IF roundbit /\ (sticky \/ (q # <<>> /\ q[1] % 2 = 1)) THEN BigInc(q) ELSE q

\* half of the cut-off quotient cut, rounded to the nearest integer
RoundHalf(cut) ==
    RoundHalfOf(BigNorm(BigDivMod(cut.q, 2).q),
                cut.q # <<>> /\ cut.q[1] % 2 = 1,
                cut.sticky)

(***************************************************************************)
(* Python values: int | None, or the exception a call ended with.          *)
(***************************************************************************)
None == [tag |-> "None", neg |-> FALSE, mag |-> <<>>]

\* the int with the given sign and magnitude (-0 is 0)
PyIntVal(neg, mag) == [tag |-> "int", neg |-> (neg /\ mag # <<>>), mag |-> mag]

Raised(exc) == [tag |-> exc, neg |-> FALSE, mag |-> <<>>]

IsInt(v) == v.tag = "int"

IsRaised(v) == v.tag \notin {"int", "None"}

\* Python truthiness of an int | None
Truthy(v) == v.tag = "int" /\ v.mag # <<>>

\* the int n, for a machine integer n >= 0
IntOf(n) == PyIntVal(FALSE, Big(n))

(***************************************************************************)
(* float(t) for the texts the model feeds it: an optional sign followed by *)
(* decimal digits with at most one point, or by inf, infinity or nan.      *)
(* A finite float is man * 2^exp with man of at most MantissaBits bits:    *)
(* the double nearest to the decimal value (the texts of the model stay    *)
(* within the range of the normal doubles).                                *)
(***************************************************************************)
MantissaBits == 53

FloatValue(kind, neg, man, exp) ==
    [kind |-> kind, neg |-> neg, man |-> man, exp |-> exp]

\* the double nearest to num / den, given num / (den * 2^e) cut off, for
\* the e that puts the quotient between 2^52 and 2^54
FloatPick(neg, num, den, e, cut) ==
    IF BigBits(cut.q) <= MantissaBits + 1
    THEN FloatValue("finite", neg, RoundHalf(cut), e)
    ELSE FloatValue("finite", neg, RoundHalf(TwiceQuotient(num, den, e + 1)), e + 1)

FloatAtExp(neg, num, den, e) == FloatPick(neg, num, den, e, TwiceQuotient(num, den, e))

\* the double nearest to num / den, for 0 < den
FloatOfRational(neg, num, den) ==
    IF num = <<>> THEN FloatValue("finite", neg, <<>>, 0)
    ELSE FloatAtExp(neg, num, den, BigBits(num) - BitLen(den) - MantissaBits)

\* the index of the decimal point of body, Len(body) + 1 if it has none
DotAt(body) ==
    IF \E i \in 1..Len(body) : body[i] = "." 
    THEN CHOOSE i \in 1..Len(body) : body[i] = "."
    ELSE Len(body) + 1

\* the digits before and after the point at index dot
IntPart(body, dot) == SubSeq(body, 1, dot - 1)

FracPart(body, dot) == SubSeq(body, dot + 1, Len(body))

AllDigits(s) == \A i \in 1..Len(s) : IsDigitChar(s[i])

FloatOfParts(neg, ip, fp) ==
    IF AllDigits(ip) /\ AllDigits(fp) /\ Len(ip) + Len(fp) >= 1
    THEN FloatOfRational(neg, BigDec(ip \o fp), Pow10(Len(fp)))
    ELSE FloatValue("ValueError", FALSE, <<>>, 0)

FloatOfDecimal(neg, body, dot) ==
    FloatOfParts(neg, IntPart(body, dot), FracPart(body, dot))

\* float of the text without its sign
FloatOfBody(neg, body, lb) ==
    IF lb \in {<<"i", "n", "f">>, <<"i", "n", "f", "i", "n", "i", "t", "y">>}
    THEN FloatValue("inf", neg, <<>>, 0)
    ELSE IF lb = <<"n", "a", "n">>
    THEN FloatValue("nan", neg, <<>>, 0)
    ELSE FloatOfDecimal(neg, body, DotAt(body))

IsNegative(u) == u # <<>> /\ u[1] = "-"

Unsigned(u) == IF u # <<>> /\ u[1] \in {"+", "-"} THEN Tail(u) ELSE u

FloatOfUnsigned(neg, body) == FloatOfBody(neg, body, Lower(body))

FloatOfStripped(u) == FloatOfUnsigned(IsNegative(u), Unsigned(u))

PyFloat(t) == FloatOfStripped(Strip(t))

IntOfUnsigned(neg, body) ==
    IF IsDigitStr(body) THEN PyIntVal(neg, BigDec(body))
    ELSE Raised("ValueError")

IntOfStripped(u) == IntOfUnsigned(IsNegative(u), Unsigned(u))

\* int(s): an optional sign followed by decimal digits; else ValueError
PyInt(s) == IntOfStripped(Strip(s))

\* _UNIT, as powers of 1024
UNIT == [k |-> 1, m |-> 2, g |-> 3]

UnitPower(c) == IF c = "k" THEN UNIT.k ELSE IF c = "m" THEN UNIT.m ELSE UNIT.g

\* a variant that truncates instead of rounding
RoundFloatTruncates(man, e) ==
    IF e >= 0 THEN BigShl(man, e) ELSE ShrSticky(man, -e).q

\* round(x) for the finite float man * 2^e: the nearest integer, a tie
\* going to the even neighbour
RoundFloat(man, e) ==
    IF e >= 0 THEN BigShl(man, e) ELSE RoundHalf(ShrSticky(man, -e - 1))

\* round(x * unit) for the float x: the product by a power of 2 is exact;
\* round() raises OverflowError on an infinity and ValueError on a NaN, and
\* float() ValueError on a bad text
RoundTimes(x, p) ==
    IF x.kind = "ValueError" THEN Raised("ValueError")
    ELSE IF x.kind = "inf" THEN Raised("OverflowError")
    ELSE IF x.kind = "nan" THEN Raised("ValueError")
    ELSE PyIntVal(x.neg, RoundFloat(x.man, x.exp + DigitBits * p))

\* the try/except ValueError around a conversion: ValueError becomes None,
\* any other exception propagates
ExceptValueError(v) == IF v.tag = "ValueError" THEN None ELSE v

\* _parse_size after the strip, for s with the last character suffix
ParseStripped(s, suffix) ==
    IF suffix \in {"k", "m", "g"}
    THEN ExceptValueError(
             RoundTimes(PyFloat(SubSeq(s, 1, Len(s) - 1)), UnitPower(suffix)))
    ELSE ExceptValueError(PyInt(s))

ParseNonEmpty(s) == ParseStripped(s, LowerChar(s[Len(s)]))

ParseOfStrip(s) == IF s = <<>> \/ s = <<"-">> THEN None ELSE ParseNonEmpty(s)

\* _parse_size(raw)
ParseSize(raw) == ParseOfStrip(Strip(raw))

(***************************************************************************)
(* The directory scraper.  A page is the sequence of its <a href> elements *)
(* in document order; an anchor is its href and its enclosing <tr>, if     *)
(* any, as the texts of the row's <td> cells.                              *)
(***************************************************************************)
NAV_HREFS == {
    <<".", ".", "/">>,
    <<"/">>,
    <<"?", "C", "=", "N", ";", "O", "=", "D">>,
    <<"?", "C", "=", "N", ";", "O", "=", "A">>,
    <<"?", "C", "=", "M", ";", "O", "=", "D">>,
    <<"?", "C", "=", "M", ";", "O", "=", "A">>,
    <<"?", "C", "=", "S", ";", "O", "=", "D">>,
    <<"?", "C", "=", "S", ";", "O", "=", "A">>,
    <<"?", "C", "=", "D", ";", "O", "=", "D">>,
    <<"?", "C", "=", "D", ";", "O", "=", "A">>}

ZipExt == <<".", "z", "i", "p">>

NoRow == [present |-> FALSE, cells |-> <<>>]

Row(cells) == [present |-> TRUE, cells |-> cells]

Anchor(href, row) == [href |-> href, row |-> row]

\* the href test of scrape_dir: does the anchor name a file to catalog?
Matches(a) ==
    LET href == Strip(a.href)
    IN  ~(href \in NAV_HREFS \/ ~EndsWith(Lower(href), ZipExt))

\* filename = os.path.basename(href.rstrip("/"))
Filename(a) == Basename(RStripSlash(Strip(a.href)))

\* the scan of a row of fewer than 4 cells: the first cell whose text is
\* non-empty, not "-" and parses to a truthy size; a raise propagates
RECURSIVE ScanCells(_)
ScanCandidate(candidate, rest) ==
    IF IsRaised(candidate) THEN candidate
    ELSE IF Truthy(candidate) THEN candidate
    ELSE ScanCells(rest)

ScanCell(txt, rest) ==
    IF txt # <<>> /\ txt # <<"-">> THEN ScanCandidate(ParseSize(txt), rest)
    ELSE ScanCells(rest)

ScanCells(cells) ==
    IF cells = <<>> THEN None ELSE ScanCell(Strip(cells[1]), Tail(cells))

\* size_bytes of an anchor with the enclosing row, if any
RowSize(row) ==
    IF ~row.present THEN None
    ELSE IF Len(row.cells) >= 4 THEN ParseSize(row.cells[4])
    ELSE ScanCells(row.cells)

\* a variant whose size_bytes starts as 0 instead of None
ZeroForNone(found) == IF found = None THEN PyIntVal(FALSE, <<>>) ELSE found

AnchorSizeZeroDefault(a) == ZeroForNone(RowSize(a.row))

\* size_bytes of one anchor
AnchorSize(a) == RowSize(a.row)

\* a dict, in insertion order: a sequence of entries with distinct keys
DictKeys(d) == {d[i].filename : i \in 1..Len(d)}

\* a variant that keeps the value of a key already present (setdefault)
DictSetKeepsFirst(d, filename, size_bytes) ==
    IF filename \in DictKeys(d) THEN d
    ELSE Append(d, [filename |-> filename, size_bytes |-> size_bytes])

\* d[filename] = size_bytes: a new key is appended, an old one keeps its place
DictSet(d, filename, size_bytes) ==
    IF filename \in DictKeys(d)
    THEN [i \in 1..Len(d) |->
             IF d[i].filename = filename
             THEN [filename |-> filename, size_bytes |-> size_bytes]
             ELSE d[i]]
    ELSE Append(d, [filename |-> filename, size_bytes |-> size_bytes])

DictGet(d, filename) ==
    d[CHOOSE i \in 1..Len(d) : d[i].filename = filename].size_bytes

Returned(items) == [tag |-> "returned", items |-> items]

RaisedIn(exc) == [tag |-> exc, items |-> <<>>]

\* the loop of scrape_dir over the anchors, from the dict built so far
RECURSIVE ScrapeLoop(_, _)
ScrapeMatching(filename, size_bytes, rest, result) ==
    IF IsRaised(size_bytes) THEN RaisedIn(size_bytes.tag)
    ELSE ScrapeLoop(rest, DictSet(result, filename, size_bytes))

ScrapeAnchor(a, rest, result) ==
    IF ~Matches(a) THEN ScrapeLoop(rest, result)
    ELSE ScrapeMatching(Filename(a), AnchorSize(a), rest, result)

ScrapeLoop(anchors, result) ==
    IF anchors = <<>> THEN Returned(result)
    ELSE ScrapeAnchor(anchors[1], Tail(anchors), result)

\* scrape_dir after the fetch: the page of the response to its dict
ScrapePage(anchors) == ScrapeLoop(anchors, <<>>)

(***************************************************************************)
(* The year listing.                                                       *)
(***************************************************************************)
\* a < b for two strings of digits, as Python compares str
RECURSIVE StrLess(_, _)
StrLess(a, b) ==
    IF b = <<>> THEN FALSE
    ELSE IF a = <<>> THEN TRUE
    ELSE IF a[1] # b[1] THEN DigitVal(a[1]) < DigitVal(b[1])
    ELSE StrLess(Tail(a), Tail(b))

\* insert y into the sorted list ys, after the elements that are not greater
RECURSIVE SortedInsert(_, _)
SortedInsert(ys, y) ==
    IF ys = <<>> THEN <<y>>
    ELSE IF StrLess(y, ys[1]) THEN <<y>> \o ys
    ELSE <<ys[1]>> \o SortedInsert(Tail(ys), y)

\* sorted(years)
RECURSIVE Sorted(_)
Sorted(ys) ==
    IF ys = <<>> THEN <<>>
    ELSE SortedInsert(Sorted(SubSeq(ys, 1, Len(ys) - 1)), ys[Len(ys)])

YearHref(a) == RStripSlash(Strip(a.href))

IsYear(href) == IsDigitStr(href) /\ Len(href) = 4

\* the loop of list_years: the hrefs that are 4 digits, in page order
RECURSIVE YearsOf(_)
YearsOf(anchors) ==
    IF anchors = <<>> THEN <<>>
    ELSE IF IsYear(YearHref(anchors[1]))
         THEN <<YearHref(anchors[1])>> \o YearsOf(Tail(anchors))
         ELSE YearsOf(Tail(anchors))

\* list_years after the fetch
ListYearsPage(anchors) == Sorted(YearsOf(anchors))

(***************************************************************************)
(* The HTTP client.  One GET ends with a response or with a               *)
(* requests.RequestException (connection error, timeout).                  *)
(***************************************************************************)
HttpResponse(status, text) == [kind |-> "response", status |-> status, text |-> text]

RequestException == [kind |-> "RequestException", status |-> 0, text |-> <<>>]

NoResponse == [kind |-> "None", status |-> 0, text |-> <<>>]

\* r.raise_for_status() raises HTTPError, a RequestException, on 4xx and 5xx
RaiseForStatus(status) == 400 <= status /\ status < 600

\* does the try block of one attempt end in the except clause?
AttemptFails(outcome) ==
    \/ outcome.kind = "RequestException"
    \/ outcome.kind = "response" /\ RaiseForStatus(outcome.status)

\* a variant that doubles from the first sleep on
SleepTimeDoubled(attempt) == RETRY_BACKOFF * Pow2(attempt)

\* the argument of time.sleep after the failed attempt, in tenths of a second
SleepTime(attempt) == RETRY_BACKOFF * Pow2(attempt - 1)

\* the frame of a call of _get: entering the loop
GetEnter(url) ==
    [url |-> url, attempt |-> 1, phase |-> "request", ret |-> NoResponse]

NoCall == [url |-> <<>>, attempt |-> 0, phase |-> "none", ret |-> NoResponse]

\* a variant that gives up one attempt early
GetAttemptGivesUpEarly(f, outcome) ==
    IF ~AttemptFails(outcome)
    THEN [f EXCEPT !.phase = "returned", !.ret = outcome]
    ELSE IF f.attempt >= MAX_RETRIES - 1
    THEN [f EXCEPT !.phase = "returned", !.ret = NoResponse]
    ELSE [f EXCEPT !.phase = "sleep"]

\* the body of the loop for one attempt, given how the GET ended
GetAttempt(f, outcome) ==
    IF ~AttemptFails(outcome)
    THEN [f EXCEPT !.phase = "returned", !.ret = outcome]
    ELSE IF f.attempt = MAX_RETRIES
    THEN [f EXCEPT !.phase = "returned", !.ret = NoResponse]
    ELSE [f EXCEPT !.phase = "sleep"]

\* a variant that does not count the attempt
GetWakeSameAttempt(f) == [f EXCEPT !.phase = "request"]

\* time.sleep returns and the loop goes to the next attempt
GetWake(f) == [f EXCEPT !.attempt = f.attempt + 1, !.phase = "request"]

(***************************************************************************)
(* The crawl of one frequency.                                             *)
(***************************************************************************)
ALL_VARIABLES == <<
    <<"p", "p", "t">>,
    <<"s", "o", "l", "s", "l", "o", "p", "e">>,
    <<"s", "o", "l", "t", "o", "t", "a", "l">>,
    <<"t", "d", "m", "e", "a", "n">>,
    <<"t", "m", "a", "x">>,
    <<"t", "m", "e", "a", "n">>,
    <<"t", "m", "i", "n">>,
    <<"v", "p", "d", "m", "a", "x">>,
    <<"v", "p", "d", "m", "i", "n">>>>

FREQUENCIES == <<<<"m", "o", "n", "t", "h", "l", "y">>, <<"d", "a", "i", "l", "y">>>>

\* f"{base_url}/{variable}/{frequency}/"
FreqUrl(base_url, variable, frequency) ==
    base_url \o <<"/">> \o variable \o <<"/">> \o frequency \o <<"/">>

\* f"{freq_url}{year}/"
YearUrl(freq_url, year) == freq_url \o year \o <<"/">>

SchemeChars ==
    Range(LowerChars) \cup Range(UpperChars) \cup Range(DigitChars) \cup {"+", "-", "."}

IsAlpha(c) == c \in Range(LowerChars) \cup Range(UpperChars)

\* the length of the scheme urlsplit finds at the head of url, 0 if none
SchemeLen(url) ==
    LET colons == {i \in 1..Len(url) : url[i] = ":"}
        first  == CHOOSE i \in colons : \A j \in colons : i <= j
    IN  IF colons = {} THEN 0
        ELSE IF first > 1 /\ IsAlpha(url[1])
                /\ \A j \in 1..(first - 1) : url[j] \in SchemeChars
        THEN first - 1
        ELSE 0

Scheme(url) == Lower(SubSeq(url, 1, SchemeLen(url)))

\* the index of the first c in s, Len(s) + 1 if there is none
FirstOf(s, c) ==
    IF \E i \in 1..Len(s) : s[i] = c
    THEN CHOOSE i \in 1..Len(s) : s[i] = c /\ \A j \in 1..(i - 1) : s[j] # c
    ELSE Len(s) + 1

Before(s, i) == SubSeq(s, 1, i - 1)

After(s, i) == SubSeq(s, i + 1, Len(s))

\* urlunparse of the parts of a relative reference: an empty params, query
\* or fragment is left out together with its delimiter
Unparse(path, params, query, fragment) ==
    path \o (IF params = <<>> THEN <<>> ELSE <<";">> \o params)
         \o (IF query = <<>> THEN <<>> ELSE <<"?">> \o query)
         \o (IF fragment = <<>> THEN <<>> ELSE <<"#">> \o fragment)

\* the directory above the directory URL dir, which ends in "/"
UpOne(dir) ==
    SubSeq(dir, 1, Len(dir) - Len(Basename(Before(dir, Len(dir)))) - 1)

\* the path of a reference of one segment resolved against dir: the
\* segments "." and ".." are removed
ResolvePath(dir, path) ==
    IF path = <<".">> THEN dir
    ELSE IF path = <<".", ".">> THEN UpOne(dir)
    ELSE dir \o path

\* urlparse of a reference without scheme and "/": the fragment follows the
\* first "#", the query the first "?" before it, the params the first ";"
\* before that
JoinPath(dir, pp, query, fragment) ==
    Unparse(ResolvePath(dir, Before(pp, FirstOf(pp, ";"))),
            After(pp, FirstOf(pp, ";")), query, fragment)

JoinQuery(dir, pq, fragment) ==
    JoinPath(dir, Before(pq, FirstOf(pq, "?")), After(pq, FirstOf(pq, "?")), fragment)

JoinRelative(dir, ref) ==
    JoinQuery(dir, Before(ref, FirstOf(ref, "#")), After(ref, FirstOf(ref, "#")))

\* urljoin(year_url, fname) for a directory URL ending in "/" and a name
\* without "/": a name with a scheme of its own is returned as it is, a name
\* with the scheme of the directory is resolved without it
UrlJoin(year_url, fname) ==
    IF SchemeLen(fname) = 0 THEN JoinRelative(year_url, fname)
    ELSE IF Scheme(fname) # Scheme(year_url) THEN fname
    ELSE JoinRelative(year_url, After(fname, SchemeLen(fname) + 1))

\* a variant without the test for None, which fails on resp.text
ScrapeDirNoNoneTest(resp) ==
    IF resp = NoResponse THEN RaisedIn("AttributeError") ELSE ScrapePage(resp.text)

\* scrape_dir(url), given what _get returned
ScrapeDir(resp) ==
    IF resp = NoResponse THEN Returned(<<>>) ELSE ScrapePage(resp.text)

\* list_years(url), given what _get returned
ListYears(resp) ==
    IF resp = NoResponse THEN <<>> ELSE ListYearsPage(resp.text)

\* the loop of fetch_year over files.items(), or the exception that
\* scrape_dir raised
RecordsOf(year_url, got) ==
    IF got.tag # "returned" THEN got
    ELSE Returned([i \in 1..Len(got.items) |->
             [filename   |-> got.items[i].filename,
              url        |-> UrlJoin(year_url, got.items[i].filename),
              size_bytes |-> got.items[i].size_bytes]])

\* fetch_year(year_url), given what _get returned
FetchYear(year_url, resp) == RecordsOf(year_url, ScrapeDir(resp))

\* the tasks one variable adds: one per entry of years, none if it is empty
TasksOf(freq_url, ys) == [i \in 1..Len(ys) |-> YearUrl(freq_url, ys[i])]

\* a variant that starts one thread per submitted item
PoolThreadsPerItem(max_workers, n) == n

\* the threads a ThreadPoolExecutor(max_workers) starts for n submitted items
PoolThreads(max_workers, n) == IF n < max_workers THEN n ELSE max_workers

\* a variant that starts the list over when a unit raised
ExtendResetsOnError(recs, result) ==
    IF result.tag = "returned" THEN recs \o result.items ELSE <<>>

\* a variant that merges by filename: a record replaces the one of that name
RECURSIVE MergeByFilename(_, _)
MergeByFilename(recs, items) ==
    IF items = <<>> THEN recs
    ELSE MergeByFilename(
             IF \E i \in 1..Len(recs) : recs[i].filename = items[1].filename
             THEN [i \in 1..Len(recs) |->
                      IF recs[i].filename = items[1].filename THEN items[1]
                      ELSE recs[i]]
             ELSE Append(recs, items[1]),
             Tail(items))

ExtendMergesByFilename(recs, result) ==
    IF result.tag = "returned" THEN MergeByFilename(recs, result.items) ELSE recs

\* a variant that assigns the list of the unit instead of extending by it
ExtendReplaces(recs, result) ==
    IF result.tag = "returned" THEN result.items ELSE recs

\* the try/except around records.extend(fut.result())
Extend(recs, result) ==
    IF result.tag = "returned" THEN recs \o result.items ELSE recs

\* a future: its state, the frame of its worker's call of _get while it runs,
\* what that call returned, and the result or exception of fetch_year
Future(state, fr, resp, result) ==
    [state |-> state, frame |-> fr, resp |-> resp, result |-> result]

NoResult == [tag |-> "none", items |-> <<>>]

(***************************************************************************)
(* State.                                                                  *)
(***************************************************************************)
VARIABLES
    raw,        \* _parse_size: the text it is called with
    parsed,     \* _parse_size: what the call returned or raised
    page,       \* scrape_dir: the anchors of the fetched page
    files,      \* scrape_dir: the dict returned, or the exception raised
    listing,    \* list_years: the anchors of the fetched page
    years,      \* list_years: the list returned
    frame,      \* _get: the frame of the call (in a crawl: of the main thread's call)
    log,        \* _get: the GETs and sleeps the call has made, in order
    workers,    \* build_records: the argument workers
    frequency,  \* build_records: the argument frequency
    pc,         \* build_records: where the main thread is
    varIdx,     \* build_records: the index in ALL_VARIABLES of variable
    tasks,      \* build_records: the list of year_url
    futs,       \* build_records: the future of each task, in submission order
    nthreads,   \* the executor: its number of worker threads
    order,      \* build_records: the tasks as_completed has yielded, in order
    done,       \* build_records: the progress counter
    records,    \* build_records: the list of records
    yearUrl,    \* fetch_year: the argument year_url
    out,        \* fetch_year: the list returned, or the exception raised
    site,       \* the server: the outcomes a GET of each URL can have
    freqIdx,    \* main: the index in FREQUENCIES of freq
    written     \* main: the files written, in order

NotCalled == [tag |-> "NotCalled", neg |-> FALSE, mag |-> <<>>]

NotScraped == [tag |-> "NotCalled", items |-> <<>>]

NotListed == [tag |-> "NotCalled", items |-> <<>>]

sizeVars == <<raw, parsed>>

scrapeVars == <<page, files>>

yearVars == <<listing, years>>

getVars == <<frame, log>>

crawlVars == <<workers, frequency, pc, varIdx, tasks, futs, nthreads, order, done, records>>

fetchVars == <<yearUrl, out>>

runVars == <<site, freqIdx, written>>

vars == <<raw, parsed, page, files, listing, years, frame, log,
          workers, frequency, pc, varIdx, tasks, futs, nthreads, order, done, records,
          yearUrl, out, site, freqIdx, written>>

\* the parts of the state a specification does not use
IdleSize == raw = <<>> /\ parsed = NotCalled

IdleScrape == page = <<>> /\ files = NotScraped

IdleYears == listing = <<>> /\ years = NotListed

IdleGet == frame = NoCall /\ log = <<>>

IdleFetch == yearUrl = <<>> /\ out = NotScraped

NoSite == [list |-> <<>>, dir |-> <<>>]

IdleCrawl ==
    /\ workers = 0 /\ frequency = <<>> /\ pc = "none" /\ varIdx = 0
    /\ tasks = <<>> /\ futs = <<>> /\ nthreads = 0 /\ order = <<>>
    /\ done = 0 /\ records = <<>>
    /\ site = NoSite /\ freqIdx = 0 /\ written = <<>>

(***************************************************************************)
(* SpecSize: _parse_size on every text of a bounded alphabet, and on a few  *)
(* longer texts.                                                           *)
(***************************************************************************)
SizeChars == {"0", "1", "5", ".", "-", " ", "k", "M", "g", "i", "n", "f", "a"}

\* texts longer than MaxLen: sizes with every unit letter in either case,
\* and integers around 2^53, where the doubles stop holding every integer
LongTexts == {
    <<"1", "2", ".", "5", "M">>,
    <<"3", "K">>,
    <<"2", "m">>,
    <<"7", "G">>,
    <<"9", "0", "0", "7", "1", "9", "9", "2", "5", "4", "7", "4", "0", "9", "9", "1">>,
    <<"9", "0", "0", "7", "1", "9", "9", "2", "5", "4", "7", "4", "0", "9", "9", "1", "K">>,
    <<"9", "0", "0", "7", "1", "9", "9", "2", "5", "4", "7", "4", "0", "9", "9", "2", "K">>,
    <<"9", "0", "0", "7", "1", "9", "9", "2", "5", "4", "7", "4", "0", "9", "9", "3">>,
    <<"9", "0", "0", "7", "1", "9", "9", "2", "5", "4", "7", "4", "0", "9", "9", "3", "K">>,
    <<"9", "0", "0", "7", "1", "9", "9", "2", "5", "4", "7", "4", "0", "9", "9", "3", "g">>,
    <<"1", "8", "0", "1", "4", "3", "9", "8", "5", "0", "9", "4", "8", "1", "9", "8", "5", "m">>}

InitSize ==
    /\ raw \in StringsUpTo(SizeChars, MaxLen) \cup LongTexts
    /\ parsed = NotCalled
    /\ IdleScrape /\ IdleYears /\ IdleGet /\ IdleCrawl /\ IdleFetch

CallParseSize ==
    /\ parsed = NotCalled
    /\ parsed' = ParseSize(raw)
    /\ UNCHANGED <<raw, scrapeVars, yearVars, getVars, crawlVars, fetchVars, runVars>>

NextSize == CallParseSize

SpecSize == InitSize /\ [][NextSize]_vars

(***************************************************************************)
(* SpecScrape: scrape_dir on the page of a successful fetch.  The pages    *)
(* are the one-anchor pages over every row of up to MaxCells cells, and    *)
(* the pages of up to MaxAnchors anchors over a few rows.                  *)
(***************************************************************************)
CellTexts == {
    <<>>,
    <<"-">>,
    <<"0">>,
    <<"1", "2", "K">>,
    <<" ", "7">>,
    <<"i", "n", "f", "K">>,
    <<"a", ".", "z", "i", "p">>}

Rows == {NoRow} \cup {Row(c) : c \in StringsUpTo(CellTexts, MaxCells)}

FileA == <<"a", ".", "z", "i", "p">>

SomeHrefs == {
    FileA,
    <<"d", "/", "a", ".", "z", "i", "p">>,
    <<" ", "b", ".", "Z", "I", "P">>,
    <<".", ".", "/">>,
    <<"c", ".", "t", "x", "t">>}

SomeRows == {
    NoRow,
    Row(<<<<"a", ".", "z", "i", "p">>, <<"1", "2", "K">>>>),
    Row(<<<<>>, <<"a", ".", "z", "i", "p">>, <<"-">>, <<"0">>, <<>> >>),
    Row(<<<<>>, <<"a", ".", "z", "i", "p">>, <<"-">>, <<"i", "n", "f", "K">>>>)}

ScrapePages ==
    {<<Anchor(FileA, r)>> : r \in Rows}
        \cup StringsUpTo({Anchor(h, r) : h \in SomeHrefs, r \in SomeRows}, MaxAnchors)

InitScrape ==
    /\ page \in ScrapePages
    /\ files = NotScraped
    /\ IdleSize /\ IdleYears /\ IdleGet /\ IdleCrawl /\ IdleFetch

CallScrapePage ==
    /\ files = NotScraped
    /\ files' = ScrapePage(page)
    /\ UNCHANGED <<page, sizeVars, yearVars, getVars, crawlVars, fetchVars, runVars>>

NextScrape == CallScrapePage

SpecScrape == InitScrape /\ [][NextScrape]_vars

(***************************************************************************)
(* SpecYears: list_years on the page of a successful fetch.                *)
(***************************************************************************)
YearHrefs == {
    <<"2", "0", "2", "0", "/">>,
    <<"1", "9", "9", "8", "/">>,
    <<" ", "2", "0", "0", "3">>,
    <<"r", "e", "a", "d", "m", "e", ".", "t", "x", "t">>,
    <<".", ".", "/">>,
    <<"2", "0", "2", "0", "1", "/">>}

InitYears ==
    /\ listing \in StringsUpTo({Anchor(h, NoRow) : h \in YearHrefs}, MaxAnchors)
    /\ years = NotListed
    /\ IdleSize /\ IdleScrape /\ IdleGet /\ IdleCrawl /\ IdleFetch

CallListYearsPage ==
    /\ years = NotListed
    /\ years' = Returned(ListYearsPage(listing))
    /\ UNCHANGED <<listing, sizeVars, scrapeVars, getVars, crawlVars, fetchVars, runVars>>

NextYears == CallListYearsPage

SpecYears == InitYears /\ [][NextYears]_vars

(***************************************************************************)
(* SpecGet: one call of _get, against a server that answers each GET with  *)
(* any status or not at all.                                               *)
(***************************************************************************)
UrlA == <<"h", "/", "a", "/">>

UrlB == <<"h", "/", "b", "/">>

Statuses == {200, 304, 404, 503}

GetOutcomes == {HttpResponse(st, <<>>) : st \in Statuses} \cup {RequestException}

InitGet ==
    /\ frame \in {GetEnter(UrlA), GetEnter(UrlB)}
    /\ log = <<>>
    /\ IdleSize /\ IdleScrape /\ IdleYears /\ IdleCrawl /\ IdleFetch

\* one pass of the try block: the GET, raise_for_status, return or except
GetTry ==
    /\ frame.phase = "request"
    /\ \E outcome \in GetOutcomes :
        /\ frame' = GetAttempt(frame, outcome)
        /\ log' = log \o <<[call |-> "get", url |-> frame.url,
                            attempt |-> frame.attempt, outcome |-> outcome,
                            secs |-> 0]>>
               \o (IF frame'.phase = "sleep"
                   THEN <<[call |-> "sleep", url |-> frame.url,
                           attempt |-> frame.attempt, outcome |-> NoResponse,
                           secs |-> SleepTime(frame.attempt)]>>
                   ELSE <<>>)
    /\ UNCHANGED <<sizeVars, scrapeVars, yearVars, crawlVars, fetchVars, runVars>>

\* the sleep ends
GetRetry ==
    /\ frame.phase = "sleep"
    /\ frame' = GetWake(frame)
    /\ UNCHANGED <<log, sizeVars, scrapeVars, yearVars, crawlVars, fetchVars, runVars>>

NextGet == GetTry \/ GetRetry

SpecGet == InitGet /\ [][NextGet]_vars

(***************************************************************************)
(* Spec: one call of build_records, for either frequency, against a server *)
(* that answers each GET with any status and any of a few pages, or not at *)
(* all.                                                                    *)
(***************************************************************************)
BaseUrl == <<"h", "t", "t", "p", ":", "/", "/", "h">>

Variables == SubSeq(ALL_VARIABLES, 1, NumVariables)

Year2020 == Anchor(<<"2", "0", "2", "0", "/">>, NoRow)

Year1998 == Anchor(<<"1", "9", "9", "8", "/">>, NoRow)

ListPages == {
    <<>>,
    <<Year2020>>,
    <<Year2020, Year1998>>,
    <<Year2020, Year2020>>}

WideRow(size) == Row(<<<<>>, FileA, <<"-">>, size>>)

FileB == <<"b", ".", "z", "i", "p">>

DirPageNarrow == <<Anchor(FileA, Row(<<FileA, <<"1", "2", "K">>>>))>>

DirPageMixed == <<Anchor(FileA, NoRow), Anchor(FileB, WideRow(<<"0">>))>>

DirPageInf ==
    <<Anchor(FileA, WideRow(<<"1", "2", "K">>)),
      Anchor(FileB, WideRow(<<"i", "n", "f", "K">>))>>

DirPages == {DirPageMixed, DirPageInf}

CrawlStatuses == {200, 404, 503}

\* raise_for_status discards the body of an error answer
ListOutcomes ==
    {HttpResponse(200, pg) : pg \in ListPages}
        \cup {HttpResponse(st, <<>>) : st \in CrawlStatuses \ {200}}
        \cup {RequestException}

DirOutcomes ==
    {HttpResponse(200, pg) : pg \in DirPages}
        \cup {HttpResponse(st, <<>>) : st \in CrawlStatuses \ {200}}
        \cup {RequestException}

\* the year directories the listing pages name
Years == {YearHref(Year2020), YearHref(Year1998)}

\* a server that answers a GET of any URL with any outcome
AnyServer ==
    [list |-> [v \in 1..NumVariables |-> ListOutcomes],
     dir  |-> [y \in Years |-> DirOutcomes]]

\* the variable of a listing URL of the frequency being crawled, and the
\* year of a year directory URL
VariableOf(url) ==
    CHOOSE v \in 1..NumVariables : url = FreqUrl(BaseUrl, Variables[v], frequency)

YearOf(url) == SubSeq(url, Len(url) - 4, Len(url) - 1)

\* the outcomes a GET of the URL can have
ListAnswers(url) == site.list[VariableOf(url)]

DirAnswers(url) == site.dir[YearOf(url)]

Running == {i \in 1..Len(futs) : futs[i].state = "running"}

\* the state at the call of build_records(base_url, frequency, workers)
EnterBuildRecords(freq) ==
    /\ frequency = freq
    /\ pc = "listing"
    /\ varIdx = 1
    /\ frame = GetEnter(FreqUrl(BaseUrl, Variables[1], freq))
    /\ tasks = <<>>
    /\ futs = <<>>
    /\ nthreads = 0
    /\ order = <<>>
    /\ done = 0
    /\ records = <<>>

Init ==
    /\ workers \in 1..MaxWorkers
    /\ freqIdx \in 1..Len(FREQUENCIES)
    /\ EnterBuildRecords(FREQUENCIES[freqIdx])
    /\ site = AnyServer
    /\ written = <<>>
    /\ log = <<>>
    /\ IdleSize /\ IdleScrape /\ IdleYears /\ IdleFetch

\* a variant that leaves the loop over the variables at an empty listing
ListTryBreaks ==
    /\ pc = "listing"
    /\ frame.phase = "request"
    /\ \E outcome \in ListAnswers(frame.url) :
        LET f == GetAttempt(frame, outcome)
        IN  IF f.phase # "returned"
            THEN /\ frame' = f
                 /\ UNCHANGED <<pc, varIdx, tasks>>
            ELSE /\ Len(tasks) + Len(ListYears(f.ret)) <= MaxTasks
                 /\ tasks' = tasks \o TasksOf(frame.url, ListYears(f.ret))
                 /\ IF varIdx < Len(Variables) /\ ListYears(f.ret) # <<>>
                    THEN /\ varIdx' = varIdx + 1
                         /\ frame' = GetEnter(FreqUrl(BaseUrl, Variables[varIdx + 1],
                                                      frequency))
                         /\ pc' = pc
                    ELSE /\ varIdx' = varIdx
                         /\ frame' = NoCall
                         /\ pc' = "submit"
    /\ UNCHANGED <<workers, frequency, futs, nthreads, order, done, records, log,
                   sizeVars, scrapeVars, yearVars, fetchVars, runVars>>

\* the main thread, in list_years for the current variable: one pass of the
\* try block of _get; when _get returns, the rest of list_years and of the
\* loop body, up to the call of list_years for the next variable
ListTry ==
    /\ pc = "listing"
    /\ frame.phase = "request"
    /\ \E outcome \in ListAnswers(frame.url) :
        LET f == GetAttempt(frame, outcome)
        IN  IF f.phase # "returned"
            THEN /\ frame' = f
                 /\ UNCHANGED <<pc, varIdx, tasks>>
            ELSE /\ Len(tasks) + Len(ListYears(f.ret)) <= MaxTasks
                 /\ tasks' = tasks \o TasksOf(frame.url, ListYears(f.ret))
                 /\ IF varIdx < Len(Variables)
                    THEN /\ varIdx' = varIdx + 1
                         /\ frame' = GetEnter(FreqUrl(BaseUrl, Variables[varIdx + 1],
                                                      frequency))
                         /\ pc' = pc
                    ELSE /\ varIdx' = varIdx
                         /\ frame' = NoCall
                         /\ pc' = "submit"
    /\ UNCHANGED <<workers, frequency, futs, nthreads, order, done, records, log,
                   sizeVars, scrapeVars, yearVars, fetchVars, runVars>>

\* the main thread's sleep in _get ends
ListRetry ==
    /\ pc = "listing"
    /\ frame.phase = "sleep"
    /\ frame' = GetWake(frame)
    /\ UNCHANGED <<crawlVars, fetchVars, runVars, log, sizeVars, scrapeVars, yearVars>>

\* the executor is created and every task is submitted
Submit ==
    /\ pc = "submit"
    /\ futs' = [i \in 1..Len(tasks) |-> Future("pending", NoCall, NoResponse, NoResult)]
    /\ nthreads' = PoolThreads(workers, Len(tasks))
    /\ done' = 0
    /\ pc' = "collect"
    /\ UNCHANGED <<workers, frequency, varIdx, tasks, order, records, getVars,
                   sizeVars, scrapeVars, yearVars, fetchVars, runVars>>

\* an idle worker thread takes the oldest work item off the queue
TaskStart(i) ==
    /\ futs[i].state = "pending"
    /\ \A j \in 1..(i - 1) : futs[j].state # "pending"
    /\ Cardinality(Running) < nthreads
    /\ futs' = [futs EXCEPT ![i] = Future("running", GetEnter(tasks[i]), NoResponse, NoResult)]
    /\ UNCHANGED <<workers, frequency, pc, varIdx, tasks, nthreads, order, done,
                   records, getVars, sizeVars, scrapeVars, yearVars, fetchVars, runVars>>

\* a worker in fetch_year: one pass of the try block of _get; when _get
\* returns, the rest of scrape_dir and fetch_year, which ends the future
TaskTry(i) ==
    /\ futs[i].state = "running"
    /\ futs[i].frame.phase = "request"
    /\ \E outcome \in DirAnswers(futs[i].frame.url) :
        LET f == GetAttempt(futs[i].frame, outcome)
        IN  futs' = [futs EXCEPT ![i] =
                        IF f.phase = "returned"
                        THEN Future("finished", NoCall, f.ret,
                                    FetchYear(tasks[i], f.ret))
                        ELSE Future("running", f, NoResponse, NoResult)]
    /\ UNCHANGED <<workers, frequency, pc, varIdx, tasks, nthreads, order, done,
                   records, getVars, sizeVars, scrapeVars, yearVars, fetchVars, runVars>>

\* a worker's sleep in _get ends
TaskRetry(i) ==
    /\ futs[i].state = "running"
    /\ futs[i].frame.phase = "sleep"
    /\ futs' = [futs EXCEPT ![i] = Future("running", GetWake(futs[i].frame), NoResponse,
                                              NoResult)]
    /\ UNCHANGED <<workers, frequency, pc, varIdx, tasks, nthreads, order, done,
                   records, getVars, sizeVars, scrapeVars, yearVars, fetchVars, runVars>>

\* a variant that counts a unit after its records are added, inside the try
CollectCountsInTry(i) ==
    /\ pc = "collect"
    /\ futs[i].state = "finished"
    /\ i \notin Range(order)
    /\ order' = Append(order, i)
    /\ done' = IF futs[i].result.tag = "returned" THEN done + 1 ELSE done
    /\ records' = Extend(records, futs[i].result)
    /\ UNCHANGED <<workers, frequency, pc, varIdx, tasks, futs, nthreads, getVars,
                   sizeVars, scrapeVars, yearVars, fetchVars, runVars>>

\* one pass of the loop over as_completed(futs)
Collect(i) ==
    /\ pc = "collect"
    /\ futs[i].state = "finished"
    /\ i \notin Range(order)
    /\ order' = Append(order, i)
    /\ done' = done + 1
    /\ records' = Extend(records, futs[i].result)
    /\ UNCHANGED <<workers, frequency, pc, varIdx, tasks, futs, nthreads, getVars,
                   sizeVars, scrapeVars, yearVars, fetchVars, runVars>>

\* a variant that returns as soon as one future has been collected
ReturnEarly ==
    /\ pc = "collect"
    /\ Len(order) >= 1
    /\ pc' = "returned"
    /\ UNCHANGED <<workers, frequency, varIdx, tasks, futs, nthreads, order, done,
                   records, getVars, sizeVars, scrapeVars, yearVars, fetchVars, runVars>>

\* as_completed is exhausted, the executor shuts down, build_records returns
Return ==
    /\ pc = "collect"
    /\ Len(order) = Len(futs)
    /\ pc' = "returned"
    /\ UNCHANGED <<workers, frequency, varIdx, tasks, futs, nthreads, order, done,
                   records, getVars, sizeVars, scrapeVars, yearVars, fetchVars, runVars>>

Next ==
    \/ ListTry
    \/ ListRetry
    \/ Submit
    \/ \E i \in 1..Len(futs) : TaskStart(i)
    \/ \E i \in 1..Len(futs) : TaskTry(i)
    \/ \E i \in 1..Len(futs) : TaskRetry(i)
    \/ \E i \in 1..Len(futs) : Collect(i)
    \/ Return

Spec == Init /\ [][Next]_vars

(***************************************************************************)
(* SpecFetch: fetch_year on the page of a successful fetch of a year       *)
(* directory.                                                              *)
(***************************************************************************)
FetchHrefs == {
    FileA,
    <<"x", ":", "b", ".", "z", "i", "p">>,
    <<"h", "t", "t", "p", ":", "c", ".", "z", "i", "p">>,
    <<"d", "?", "#", ".", "z", "i", "p">>,
    <<"s", "/", "e", ".", "Z", "I", "P">>,
    <<".", ".", "/">>}

FetchRows == {NoRow, Row(<<FileA, <<"1", "2", "K">>>>)}

FetchPages == StringsUpTo({Anchor(h, r) : h \in FetchHrefs, r \in FetchRows}, MaxAnchors)

YearUrls ==
    {YearUrl(FreqUrl(BaseUrl, Variables[1], f), y) : f \in Range(FREQUENCIES), y \in Years}

InitFetch ==
    /\ page \in FetchPages
    /\ files = NotScraped
    /\ yearUrl \in YearUrls
    /\ out = NotScraped
    /\ IdleSize /\ IdleYears /\ IdleGet /\ IdleCrawl

CallFetchYear ==
    /\ out = NotScraped
    /\ out' = FetchYear(yearUrl, HttpResponse(200, page))
    /\ UNCHANGED <<page, files, yearUrl, sizeVars, yearVars, getVars, crawlVars, runVars>>

NextFetch == CallFetchYear

SpecFetch == InitFetch /\ [][NextFetch]_vars

(***************************************************************************)
(* SpecLive: a call of build_records in which every GET and every sleep    *)
(* ends, the main thread keeps running, and every worker thread that can   *)
(* take a step is scheduled.                                               *)
(***************************************************************************)
Fairness ==
    /\ WF_vars(ListTry)
    /\ WF_vars(ListRetry)
    /\ WF_vars(Submit)
    /\ \A i \in 1..MaxTasks :
        /\ WF_vars(i <= Len(futs) /\ TaskStart(i))
        /\ WF_vars(i <= Len(futs) /\ TaskTry(i))
        /\ WF_vars(i <= Len(futs) /\ TaskRetry(i))
        /\ WF_vars(i <= Len(futs) /\ Collect(i))
    /\ WF_vars(Return)

\* a server that answers or fails any GET, with any listing and with one
\* page for every directory
FlakyServer ==
    [list |-> [v \in 1..NumVariables |->
                 {HttpResponse(200, pg) : pg \in ListPages} \cup {RequestException}],
     dir  |-> [y \in Years |->
                 {HttpResponse(200, DirPageNarrow), HttpResponse(503, <<>>),
                  RequestException}]]

InitLive ==
    /\ workers \in 1..MaxWorkers
    /\ freqIdx = 1
    /\ EnterBuildRecords(FREQUENCIES[1])
    /\ site = FlakyServer
    /\ written = <<>>
    /\ log = <<>>
    /\ IdleSize /\ IdleScrape /\ IdleYears /\ IdleFetch

SpecLive == InitLive /\ [][Next]_vars /\ Fairness

(***************************************************************************)
(* SpecRun: one run of main, against a server that answers the GETs of a   *)
(* URL always the same way, or in one of two ways for a directory that is  *)
(* sometimes out of reach.                                                 *)
(***************************************************************************)
ListChoices == {
    {HttpResponse(404, <<>>)},
    {HttpResponse(200, <<>>)},
    {HttpResponse(200, <<Year2020>>)},
    {HttpResponse(200, <<Year2020, Year1998>>)}}

OutOfReach == {RequestException}

DirChoices == {
    OutOfReach,
    {HttpResponse(200, DirPageNarrow)},
    {RequestException, HttpResponse(200, DirPageInf)}}

\* the years a listing of the site names, and their number summed over the
\* variables
YearsNamed(answers) == UNION {Range(ListYears(o)) : o \in answers}

RECURSIVE YearsListed(_, _)
YearsListed(list, n) ==
    IF n = 0 THEN 0
    ELSE YearsListed(list, n - 1) + Cardinality(YearsNamed(list[n]))

\* the sites within the bound on the tasks; a directory that no listing
\* names is out of reach
Sites ==
    {s \in [list : [1..NumVariables -> ListChoices], dir : [Years -> DirChoices]] :
        /\ YearsListed(s.list, NumVariables) <= MaxTasks
        /\ \A y \in Years :
            (\A v \in 1..NumVariables : y \notin YearsNamed(s.list[v]))
                => s.dir[y] = OutOfReach}

\* Path(output_dir) / f"prism_catalog_{freq}.json", below output_dir
OutPath(freq) ==
    <<"p", "r", "i", "s", "m", "_", "c", "a", "t", "a", "l", "o", "g", "_">>
        \o freq \o <<".", "j", "s", "o", "n">>

InitRun ==
    /\ workers \in 1..MaxWorkers
    /\ freqIdx = 1
    /\ EnterBuildRecords(FREQUENCIES[1])
    /\ site \in Sites
    /\ written = <<>>
    /\ log = <<>>
    /\ IdleSize /\ IdleScrape /\ IdleYears /\ IdleFetch

\* a variant that writes both files at the end of the run
WriteFileAtEnd ==
    /\ pc = "returned"
    /\ IF freqIdx < Len(FREQUENCIES)
       THEN /\ written' = written
            /\ freqIdx' = freqIdx + 1
            /\ frequency' = FREQUENCIES[freqIdx + 1]
            /\ pc' = "listing"
            /\ varIdx' = 1
            /\ frame' = GetEnter(FreqUrl(BaseUrl, Variables[1], FREQUENCIES[freqIdx + 1]))
            /\ tasks' = <<>>
            /\ futs' = <<>>
            /\ nthreads' = 0
            /\ order' = <<>>
            /\ done' = 0
            /\ records' = <<>>
       ELSE /\ written' = <<[path |-> OutPath(FREQUENCIES[1]), records |-> records],
                            [path |-> OutPath(frequency), records |-> records]>>
            /\ pc' = "done"
            /\ UNCHANGED <<freqIdx, frequency, varIdx, frame, tasks, futs, nthreads,
                           order, done, records>>
    /\ UNCHANGED <<workers, site, fetchVars, log, sizeVars, scrapeVars, yearVars>>

\* main after build_records has returned: the file of the frequency is
\* written, and the loop goes to the call of build_records for the next
\* frequency, or ends
WriteFile ==
    /\ pc = "returned"
    /\ written' = Append(written, [path |-> OutPath(frequency), records |-> records])
    /\ IF freqIdx < Len(FREQUENCIES)
       THEN /\ freqIdx' = freqIdx + 1
            /\ frequency' = FREQUENCIES[freqIdx + 1]
            /\ pc' = "listing"
            /\ varIdx' = 1
            /\ frame' = GetEnter(FreqUrl(BaseUrl, Variables[1], FREQUENCIES[freqIdx + 1]))
            /\ tasks' = <<>>
            /\ futs' = <<>>
            /\ nthreads' = 0
            /\ order' = <<>>
            /\ done' = 0
            /\ records' = <<>>
       ELSE /\ pc' = "done"
            /\ UNCHANGED <<freqIdx, frequency, varIdx, frame, tasks, futs, nthreads,
                           order, done, records>>
    /\ UNCHANGED <<workers, site, fetchVars, log, sizeVars, scrapeVars, yearVars>>

NextRun == Next \/ WriteFile

SpecRun == InitRun /\ [][NextRun]_vars

(***************************************************************************)
(* The claims.                                                             *)
(***************************************************************************)
\* sub occurs in s as a run of consecutive elements
Contains(s, sub) ==
    \E p \in 0..(Len(s) - Len(sub)) : SubSeq(s, p + 1, p + Len(sub)) = sub

\* the position of task i in the order of completion
PosIn(s, i) == CHOOSE p \in 1..Len(s) : s[p] = i

\* the records the page fetched for task i yields; none if the fetch or the
\* parse of the page failed
UnitRecords(i) ==
    LET got == FetchYear(tasks[i], futs[i].resp)
    IN  IF got.tag = "returned" THEN got.items ELSE <<>>

\* the filenames of a list of records
FilenamesOf(recs) == {recs[k].filename : k \in 1..Len(recs)}

\* the filenames of the matching anchors of a page
PageFilenames(text) ==
    {Filename(text[k]) : k \in {n \in 1..Len(text) : Matches(text[n])}}

\* what fetch_year gives for each of the first n tasks, from the page that
\* was fetched for it
RECURSIVE UnitResults(_)
UnitResults(n) ==
    IF n = 0 THEN <<>>
    ELSE Append(UnitResults(n - 1), FetchYear(tasks[n], futs[n].resp))

\* the result of every future, in submission order
RECURSIVE FutResults(_)
FutResults(n) == IF n = 0 THEN <<>> ELSE Append(FutResults(n - 1), futs[n].result)

\* the records of a result; none if it is an exception
ItemsOf(got) == IF got.tag = "returned" THEN got.items ELSE <<>>

\* the lists of the units of ord, one after the other
RECURSIVE ConcatUnits(_, _)
ConcatUnits(units, ord) ==
    IF ord = <<>> THEN <<>>
    ELSE ConcatUnits(units, SubSeq(ord, 1, Len(ord) - 1))
            \o ItemsOf(units[ord[Len(ord)]])

\* a list of records has no filename twice and, when the page was parsed,
\* has exactly the filenames of the page
OnePerFilename(got, resp) ==
    /\ Len(ItemsOf(got)) = Cardinality(FilenamesOf(ItemsOf(got)))
    /\ got.tag = "returned" /\ resp # NoResponse =>
            FilenamesOf(got.items) = PageFilenames(resp.text)

\* the records are the lists of the collected units in the order of
\* completion, and each finished unit has one record per filename
ConcatenationOf(units) ==
    /\ records = ConcatUnits(units, order)
    /\ \A i \in 1..Len(futs) :
            futs[i].state = "finished" => OnePerFilename(units[i], futs[i].resp)

RECURSIVE SumLen(_)
SumLen(n) == IF n = 0 THEN 0 ELSE SumLen(n - 1) + Len(UnitRecords(n))

\* C1: when build_records has returned, a unit whose fetch failed all its
\* retries has contributed the empty list, and the records of every unit
\* whose page was fetched and parsed are in the catalog, as one run.
C1_Resilience ==
    pc = "returned" =>
        \A i \in 1..Len(futs) :
            /\ futs[i].resp = NoResponse => futs[i].result = Returned(<<>>)
            /\ (futs[i].resp # NoResponse
                    /\ ScrapePage(futs[i].resp.text).tag = "returned")
                => Contains(records, FetchYear(tasks[i], futs[i].resp).items)

\* a crawl has returned in which one directory failed all retries and
\* another one was fetched and gave records
C1_Witness ==
    /\ pc = "returned"
    /\ \E i, j \in 1..Len(futs) :
        /\ futs[i].resp = NoResponse
        /\ futs[j].resp # NoResponse
        /\ futs[j].result.tag = "returned"
        /\ futs[j].result.items # <<>>
        /\ records # <<>>

\* C2: when build_records has returned, every scheduled unit has run and
\* has been collected, a unit that raised has added no record, and the
\* records of every unit that did not raise are in the result.
C2_Containment ==
    pc = "returned" =>
        /\ \A i \in 1..Len(futs) :
            /\ futs[i].state = "finished"
            /\ i \in Range(order)
            /\ futs[i].result.tag = "returned"
                => Contains(records, futs[i].result.items)
        /\ Len(records) = SumLen(Len(futs))

\* a crawl has returned in which a unit raised and a unit collected after
\* it gave records
C2_Witness ==
    /\ pc = "returned"
    /\ \E i, j \in 1..Len(futs) :
        /\ futs[i].result.tag = "OverflowError"
        /\ futs[j].result.tag = "returned"
        /\ futs[j].result.items # <<>>
        /\ PosIn(order, i) < PosIn(order, j)

\* the attempts of the call of _get, in order
Gets == SelectSeq(log, LAMBDA e : e.call = "get")

Is2xx(outcome) ==
    outcome.kind = "response" /\ 200 <= outcome.status /\ outcome.status < 300

IsError(outcome) ==
    \/ outcome.kind = "RequestException"
    \/ outcome.kind = "response" /\ outcome.status \in 400..599

C4_Concatenation ==
    /\ pc = "collect" => ConcatenationOf(FutResults(Len(futs)))
    /\ pc = "returned" =>
        /\ FutResults(Len(futs)) = UnitResults(Len(futs))
        /\ ConcatenationOf(FutResults(Len(futs)))

\* a crawl has returned two records of one filename, from two directories
C4_Witness ==
    /\ pc = "returned"
    /\ \E m, n \in 1..Len(records) :
        /\ m < n
        /\ records[m].filename = records[n].filename
        /\ records[m].url # records[n].url

\* C5: at most workers units are being executed at any moment.
C5_BoundedConcurrency == Cardinality(Running) <= workers

\* as many units as there are workers are running, one of them in a retry
\* sleep, while another unit waits in the queue
C5_Witness ==
    /\ Cardinality(Running) = workers
    /\ \E i \in Running : futs[i].frame.phase = "sleep"
    /\ \E j \in 1..Len(futs) : futs[j].state = "pending"

\* C6 (as claimed): no two units that have been handed to a worker have the
\* same directory URL.
C6_Claim ==
    \A i, j \in 1..Len(futs) :
        (i # j /\ futs[i].state # "pending" /\ futs[j].state # "pending")
            => tasks[i] # tasks[j]

\* the year hrefs of the listing page
YearSet(anchors) ==
    {YearHref(anchors[k]) : k \in {n \in 1..Len(anchors) : IsYear(YearHref(anchors[n]))}}

\* C7 (as claimed): list_years returns the year hrefs of the page in
\* strictly ascending order, each year once.
C7_Claim ==
    years.tag = "returned" =>
        /\ Range(years.items) = YearSet(listing)
        /\ \A k \in 1..(Len(years.items) - 1) :
            StrLess(years.items[k], years.items[k + 1])

\* the matching anchors of the page, and the last one of a filename
MatchingIn(anchors) == {n \in 1..Len(anchors) : Matches(anchors[n])}

LastOf(anchors, filename) ==
    CHOOSE n \in MatchingIn(anchors) :
        /\ Filename(anchors[n]) = filename
        /\ \A m \in MatchingIn(anchors) : Filename(anchors[m]) = filename => m <= n

\* C8: the dict scrape_dir returns has one entry per distinct filename of
\* the matching anchors, and the size stored is the one of the last anchor of
\* that filename, be it None.
C8_LastWriteWins ==
    files.tag = "returned" =>
        /\ DictKeys(files.items) = {Filename(page[n]) : n \in MatchingIn(page)}
        /\ Len(files.items) = Cardinality(DictKeys(files.items))
        /\ \A f \in DictKeys(files.items) :
            DictGet(files.items, f) = AnchorSize(page[LastOf(page, f)])

\* a page on which a filename has a size in an earlier anchor and none in
\* the last one
C8_Witness ==
    /\ files.tag = "returned"
    /\ \E m, n \in MatchingIn(page) :
        /\ m < n
        /\ Filename(page[m]) = Filename(page[n])
        /\ n = LastOf(page, Filename(page[n]))
        /\ IsInt(AnchorSize(page[m]))
        /\ AnchorSize(page[n]) = None
        /\ DictGet(files.items, Filename(page[n])) = None

\* the sizes the cells of the row of an anchor parse to
CellSizes(a) ==
    {ParseSize(a.row.cells[k]) : k \in 1..Len(a.row.cells)}

\* C9 (as claimed): the size of a record is None only if no cell of the
\* entry's row parses to a size, and a size that is not None is the parse of
\* a cell of the row.
C9_Claim ==
    files.tag = "returned" =>
        \A f \in DictKeys(files.items) :
            LET a  == page[LastOf(page, f)]
                sz == DictGet(files.items, f)
            IN  /\ sz = None => \A c \in CellSizes(a) : ~IsInt(c)
                /\ IsInt(sz) => sz \in CellSizes(a)

\* C9 (amended): the size of a record is None only if the entry has no row,
\* or the row has 4 or more cells and the 4th does not parse, or the row has
\* fewer than 4 cells and none parses to a non-zero size; a size that is not
\* None is the parse of a cell of the row; and a size that parses in the 4th
\* cell of a row of 4 or more cells is the size of the record.
C9_Amended ==
    files.tag = "returned" =>
        \A f \in DictKeys(files.items) :
            LET a  == page[LastOf(page, f)]
                sz == DictGet(files.items, f)
            IN  /\ sz = None =>
                    \/ ~a.row.present
                    \/ Len(a.row.cells) >= 4 /\ ~IsInt(ParseSize(a.row.cells[4]))
                    \/ Len(a.row.cells) < 4 /\ \A c \in CellSizes(a) : ~Truthy(c)
                /\ IsInt(sz) => a.row.present /\ sz \in CellSizes(a)
                /\ (a.row.present /\ Len(a.row.cells) >= 4
                        /\ IsInt(ParseSize(a.row.cells[4])))
                    => sz = ParseSize(a.row.cells[4])

\* a record whose size is None although a cell of its row of fewer than 4
\* cells parses to 0
C9_Witness ==
    /\ files.tag = "returned"
    /\ \E f \in DictKeys(files.items) :
        LET a == page[LastOf(page, f)]
        IN  /\ DictGet(files.items, f) = None
            /\ a.row.present
            /\ Len(a.row.cells) < 4
            /\ PyIntVal(FALSE, <<>>) \in CellSizes(a)

\* C10 (as claimed): _parse_size returns an int or None for every text; it
\* never raises.
C10_Claim == parsed.tag \in {"NotCalled", "None", "int"}

\* the quotient q with remainder r by d, rounded to the nearest integer (a
\* tie to the even neighbour)
RoundQuotient(q, r, d) ==
    IF 2 * r > d \/ (2 * r = d /\ q # <<>> /\ q[1] % 2 = 1) THEN BigInc(q) ELSE q

RoundDivMod(dm, d) == RoundQuotient(BigNorm(dm.q), dm.r, d)

\* the integer nearest to b / d
BigRoundDiv(b, d) == RoundDivMod(BigDivMod(b, d), d)

\* the text before the unit letter
Mantissa(s) == SubSeq(s, 1, Len(s) - 1)

HasUnit(s) == s # <<>> /\ s[Len(s)] \in {"k", "K", "m", "M", "g", "G"}

\* the power of 1024 the claim gives a unit letter
ClaimedPower(c) ==
    IF c \in {"k", "K"} THEN 1 ELSE IF c \in {"m", "M"} THEN 2 ELSE 3

\* digits with one point among them: a fractional mantissa
IsFraction(t) ==
    /\ DotAt(t) <= Len(t)
    /\ AllDigits(IntPart(t, DotAt(t)))
    /\ AllDigits(FracPart(t, DotAt(t)))
    /\ Len(t) >= 2

\* the integer nearest to the decimal value of the fraction t times 1024^p
ExactProduct(ip, fp, p) == BigRoundDiv(BigShift(BigDec(ip \o fp), p), Pow10(Len(fp)))

ProductOfFraction(t, p) == ExactProduct(IntPart(t, DotAt(t)), FracPart(t, DotAt(t)), p)

\* the texts C11 speaks of, after the trim
InC11(s) ==
    \/ s \in {<<>>, <<"-">>}
    \/ IsDigitStr(s)
    \/ HasUnit(s) /\ (IsDigitStr(Mantissa(s)) \/ IsFraction(Mantissa(s)))

\* the value C11 gives them
ValueOfUnit(t, p) ==
    IF IsDigitStr(t) THEN PyIntVal(FALSE, BigShift(BigDec(t), p))
    ELSE PyIntVal(FALSE, ProductOfFraction(t, p))

ClaimedValue(s) ==
    IF s \in {<<>>, <<"-">>} THEN None
    ELSE IF IsDigitStr(s) THEN PyIntVal(FALSE, BigDec(s))
    ELSE ValueOfUnit(Mantissa(s), ClaimedPower(s[Len(s)]))

\* C11 (as claimed): "" and "-" give None; the digits of n give n, and
\* followed by k, m or g in either case n * 1024, n * 1024^2, n * 1024^3, for
\* every n; a fractional mantissa gives the integer nearest to its product
\* with the unit.
C11_Claim ==
    (parsed # NotCalled /\ InC11(Strip(raw))) => parsed = ClaimedValue(Strip(raw))

\* an integer a double holds exactly, or a fraction of at most MaxLen
\* characters
HeldExactly(t) ==
    IF IsDigitStr(t) THEN BigBits(BigDec(t)) <= MantissaBits ELSE Len(t) <= MaxLen

\* C11 (amended): as claimed, but before a unit letter only for n below
\* 2^53 and for a fractional mantissa of at most MaxLen characters.
C11_Values ==
    (/\ parsed # NotCalled
     /\ InC11(Strip(raw))
     /\ HasUnit(Strip(raw)) => HeldExactly(Mantissa(Strip(raw))))
        => parsed = ClaimedValue(Strip(raw))

\* "12.5M" has been parsed to 13107200
C11_Witness ==
    /\ raw = <<"1", "2", ".", "5", "M">>
    /\ parsed = PyIntVal(FALSE, <<0, 512, 12>>)


\* every unit has finished and has been collected, and the records are the
\* lists of all of them
AllCollected ==
    /\ \A i \in 1..Len(futs) : futs[i].state = "finished" /\ i \in Range(order)
    /\ Len(order) = Len(futs)
    /\ records = ConcatUnits(FutResults(Len(futs)), order)

\* the paths of the files written, in order
PathsWritten == [k \in 1..Len(written) |-> written[k].path]

\* C12: a file is written only when build_records has returned, every unit
\* of the frequency has finished and has been collected, and it holds the
\* whole list of records; no path is written twice, monthly comes before
\* daily, and a run that has ended has written both.
C12_WrittenOnce ==
    /\ [][written' # written =>
            /\ pc = "returned"
            /\ AllCollected
            /\ written' = Append(written, [path |-> OutPath(frequency),
                                           records |-> records])]_vars
    /\ [](/\ PathsWritten \in {<<>>, <<OutPath(FREQUENCIES[1])>>,
                                 <<OutPath(FREQUENCIES[1]), OutPath(FREQUENCIES[2])>>}
          /\ pc = "done" => Len(written) = Len(FREQUENCIES))

\* a run has ended with both files written, the monthly one with records,
\* although a directory of the daily crawl failed all its retries
C12_Witness ==
    /\ pc = "done"
    /\ Len(written) = 2
    /\ written[1].records # <<>>
    /\ \E i \in 1..Len(futs) : futs[i].resp = NoResponse

\* C13: build_records returns in the end, and when it has returned every
\* task has a future, and every future has finished and has been collected:
\* none is pending or running.
C13_Termination ==
    /\ <>(pc = "returned")
    /\ [](pc = "returned" =>
            /\ Len(futs) = Len(tasks)
            /\ \A i \in 1..Len(futs) :
                futs[i].state = "finished" /\ i \in Range(order))

\* a crawl has returned whose units went one after the other through a
\* single worker thread, the last of them after two retries
C13_Witness ==
    /\ pc = "returned"
    /\ nthreads = 1
    /\ Len(futs) >= 2
    /\ \A i \in 1..Len(futs) : futs[i].state = "finished"
    /\ futs[Len(futs)].resp = NoResponse

\* C14: the units collected so far are counted once each and their lists
\* are in the records once each, whole and in the order of collection; and
\* when build_records has returned, every unit has been collected and the
\* counter is the number of tasks.
C14_SafeCollection ==
    /\ pc \in {"collect", "returned", "done"} =>
        /\ done = Len(order)
        /\ Cardinality(Range(order)) = Len(order)
        /\ records = ConcatUnits(FutResults(Len(futs)), order)
    /\ pc \in {"returned", "done"} =>
        /\ Range(order) = 1..Len(tasks)
        /\ done = Len(tasks)

\* a crawl has returned whose second unit was collected before the first,
\* both with records
C14_Witness ==
    /\ pc = "returned"
    /\ order = <<2, 1>>
    /\ done = 2
    /\ futs[1].result.items # <<>>
    /\ futs[2].result.items # <<>>

\* the source is unchanged: every GET of a URL has the same outcome
Unchanged(srv) ==
    /\ \A v \in DOMAIN srv.list : Cardinality(srv.list[v]) = 1
    /\ \A y \in DOMAIN srv.dir : Cardinality(srv.dir[y]) = 1

\* what _get returns from a source that always answers with the one outcome
GetOf(answers) ==
    IF \E o \in answers : AttemptFails(o) THEN NoResponse
    ELSE CHOOSE o \in answers : TRUE

\* the tasks and the records an unchanged source gives, in the order of the
\* variables and of the years
RECURSIVE TasksFrom(_, _, _)
TasksFrom(srv, freq, n) ==
    IF n = 0 THEN <<>>
    ELSE TasksFrom(srv, freq, n - 1)
            \o TasksOf(FreqUrl(BaseUrl, Variables[n], freq),
                       ListYears(GetOf(srv.list[n])))

RECURSIVE RecordsFrom(_, _)
RecordsFrom(srv, ts) ==
    IF ts = <<>> THEN <<>>
    ELSE ItemsOf(FetchYear(ts[1], GetOf(srv.dir[YearOf(ts[1])])))
            \o RecordsFrom(srv, Tail(ts))

\* the multiset of the elements of a sequence
BagOf(seq) ==
    [x \in Range(seq) |-> Cardinality({k \in 1..Len(seq) : seq[k] = x})]

\* C15: against an unchanged source, the file written for a frequency holds
\* the multiset of records that the source determines, whatever the order
\* of completion: any two runs write the same multiset.
C15_Idempotence ==
    [][(written' # written /\ Unchanged(site)) =>
          BagOf(records)
            = BagOf(RecordsFrom(site, TasksFrom(site, frequency, NumVariables)))]_vars

\* a run against an unchanged source has ended, the units of its last crawl
\* collected against the order of submission, with records of both in both
\* files
C15_Witness ==
    /\ pc = "done"
    /\ Unchanged(site)
    /\ order = <<2, 1>>
    /\ futs[1].result.items # <<>>
    /\ futs[2].result.items # <<>>
    /\ Len(written) = 2
    /\ Len(written[1].records) >= 2
    /\ Len(written[2].records) >= 2

\* C16 (as claimed): the url of every record is the URL of the directory
\* followed by the filename of the record.
C16_Claim ==
    out.tag = "returned" =>
        \A k \in 1..Len(out.items) :
            out.items[k].url = yearUrl \o out.items[k].filename

\* the size a cell parses to, unknown if it does not parse
ParsedOrUnknown(txt) == IF IsInt(ParseSize(txt)) THEN ParseSize(txt) ELSE None

\* the cells of a row whose trimmed text is non-empty, not "-" and parses
\* to a non-zero size
SizeCells(cells) ==
    {k \in 1..Len(cells) :
        /\ Strip(cells[k]) \notin {<<>>, <<"-">>}
        /\ Truthy(ParsedOrUnknown(cells[k]))}

FirstSizeCell(cells) ==
    CHOOSE k \in SizeCells(cells) : \A j \in SizeCells(cells) : k <= j

\* the size the policy of C17 gives an anchor
PolicySize(row) ==
    IF ~row.present THEN None
    ELSE IF Len(row.cells) >= 4 THEN ParsedOrUnknown(row.cells[4])
    ELSE IF SizeCells(row.cells) = {} THEN None
    ELSE ParseSize(row.cells[FirstSizeCell(row.cells)])

\* C17 (as claimed): scrape_dir gives every filename the size of the policy,
\* taken on the last anchor of the filename: unknown without a row, the
\* parse of the 4th cell of a row of 4 or more cells, and in a narrower row
\* the parse of the first cell that is non-empty, not "-" and parses to a
\* non-zero size.
C17_Claim ==
    files # NotScraped =>
        /\ files.tag = "returned"
        /\ \A f \in DictKeys(files.items) :
            DictGet(files.items, f) = PolicySize(page[LastOf(page, f)].row)

\* C18: the call starts with a GET; a sleep comes only right after a failed
\* attempt k that is the first or the second, lasts the base delay after
\* the first and twice the base delay after the second, and is followed by
\* attempt k + 1; nothing follows an attempt that succeeded or the third
\* attempt.
C18_Backoff ==
    /\ log # <<>> => log[1].call = "get" /\ log[1].attempt = 1
    /\ \A j \in 1..Len(log) :
        /\ log[j].call = "sleep" =>
            /\ j > 1
            /\ log[j - 1].call = "get"
            /\ log[j - 1].attempt = log[j].attempt
            /\ IsError(log[j - 1].outcome)
            /\ log[j].attempt \in {1, 2}
            /\ log[j].secs = (IF log[j].attempt = 1 THEN RETRY_BACKOFF
                              ELSE 2 * RETRY_BACKOFF)
            /\ j < Len(log) =>
                log[j + 1].call = "get" /\ log[j + 1].attempt = log[j].attempt + 1
        /\ log[j].call = "get" =>
            IF IsError(log[j].outcome) /\ log[j].attempt < 3
            THEN j < Len(log) /\ log[j + 1].call = "sleep"
            ELSE j = Len(log)

\* a call has slept the base delay after the first attempt and twice the
\* base delay after the second, and its third attempt succeeded
C18_Witness ==
    /\ Len(log) = 5
    /\ log[2].call = "sleep" /\ log[2].secs = 15
    /\ log[4].call = "sleep" /\ log[4].secs = 30
    /\ log[5].outcome.status = 200
    /\ frame.phase = "returned"

\* C19: the task list is, variable after variable in the order of
\* ALL_VARIABLES, one task per year that list_years returned for the
\* variable; a variable whose listing failed or is empty adds none, and the
\* variables after it are listed all the same.
C19_SkipsEmpty ==
    /\ pc = "listing" => tasks = TasksFrom(site, frequency, varIdx - 1)
    /\ pc \in {"submit", "collect", "returned", "done"} =>
        tasks = TasksFrom(site, frequency, NumVariables)

\* the listing of the first variable failed all retries, and the tasks are
\* the two years of the second variable
C19_Witness ==
    /\ pc = "submit"
    /\ site.list[1] = {HttpResponse(404, <<>>)}
    /\ tasks = <<YearUrl(FreqUrl(BaseUrl, Variables[2], frequency), YearHref(Year1998)),
                 YearUrl(FreqUrl(BaseUrl, Variables[2], frequency), YearHref(Year2020))>>

\* the URL is below the listing URL of a variable for the frequency
IsUrlOf(url, freq) ==
    \E v \in 1..NumVariables :
        /\ Len(url) >= Len(FreqUrl(BaseUrl, Variables[v], freq))
        /\ Before(url, Len(FreqUrl(BaseUrl, Variables[v], freq)) + 1)
             = FreqUrl(BaseUrl, Variables[v], freq)

\* the URLs of the calls of _get in progress: the main thread's and the
\* workers'
ListingCalls == IF frame = NoCall THEN {} ELSE {frame.url}

DirectoryCalls == {futs[i].frame.url : i \in Running}

\* C20: while the main thread is in a year listing no unit has been
\* submitted, and the listings of all variables are over when the units are
\* submitted; a worker is running only while the main thread collects, so no
\* directory call and no listing call are in progress together; and a call
\* for the daily frequency is in progress only when the monthly file has been
\* written.
C20_Phases ==
    /\ ListingCalls # {} => pc = "listing" /\ futs = <<>>
    /\ pc = "submit" => varIdx = NumVariables /\ frame = NoCall /\ futs = <<>>
    /\ Running # {} => pc = "collect" /\ ListingCalls = {}
    /\ \A url \in ListingCalls \cup DirectoryCalls :
        /\ IsUrlOf(url, FREQUENCIES[2]) =>
                Len(written) = 1 /\ written[1].path = OutPath(FREQUENCIES[1])
        /\ IsUrlOf(url, FREQUENCIES[1]) => written = <<>>

\* two workers are in calls for directories of the daily frequency, the
\* monthly file written with records
C20_Witness ==
    /\ Cardinality(Running) = 2
    /\ \A i \in Running : IsUrlOf(futs[i].frame.url, FREQUENCIES[2])
    /\ Len(written) = 1
    /\ written[1].records # <<>>

====
